---- MODULE Spec2Model ----
(***************************************************************************)
(* Model of human_folder_analysis.py: the scan of a directory tree        *)
(* (scan_human_folder_complete), the report tables built from it          *)
(* (create_overview_sheet, create_subfolder_sheet, save_human_analysis_   *)
(* excel) and the orchestration in main.                                  *)
(*                                                                         *)
(* A directory is named by its path relative to the scanned root, a       *)
(* sequence of path segments; the root is the empty sequence (the code's  *)
(* rel_path '.').  A file name is the sequence of its dot-separated       *)
(* components, so "b.DAT" is <<"b", "DAT">> and "README" is <<"README">>. *)
(***************************************************************************)
EXTENDS Integers, Sequences, FiniteSets, TLC

(* ------------------------------------------------------------------ *)
(* Bounds of the explored file systems                                 *)
(* ------------------------------------------------------------------ *)

\* at most this many directories of a tree hold files
MaxFileDirs == 2

\* at most this many directories of a tree cannot be listed
MaxUnreadable == 1

\* the candidate directories: group A with subjects S and T, of which S has a
\* subfolder of its own, and group B
Universe ==
    { <<"A">>, <<"A", "S">>, <<"A", "T">>, <<"A", "S", "S">>, <<"B">> }

\* names a directory created under the root during the run may take
TopNames == {"A", "B"}

\* the candidate contents of one directory
FileSets ==
    { {},
      { <<"a", "mat">> },
      { <<"b", "DAT">>, <<"f", "dat">> },
      { <<"c", "ima">>, <<"README">> },
      { <<"d", "dcm">>, <<"e", "nii", "gz">> } }

\* the candidate contents of one directory in the runs of FairSpec
FairFileSets == { {}, { <<"c", "ima">>, <<"README">> } }

RootStates == {"missing", "file", "unlistable", "dir"}

Root == << >>

Parent(p) == SubSeq(p, 1, Len(p) - 1)

\* rank of a path segment in string order (all segments are one character)
SegRank == [s \in {"A", "B", "S", "T"} |->
              CASE s = "A" -> 1 [] s = "B" -> 2 [] s = "S" -> 3 [] OTHER -> 4]

(* ------------------------------------------------------------------ *)
(* State                                                               *)
(* ------------------------------------------------------------------ *)

VARIABLES
    root_state,        \* what human_root is on disk
    fs_dirs,           \* the directories below the root
    fs_files,          \* directory -> the file names directly in it
    unreadable,        \* the directories whose listing fails
    pc,                \* position of main
    human_subfolders,  \* names enumerated by os.listdir before the walk
    subfolders,        \* human_data['subfolders']
    all_folders,       \* human_data['all_folders']
    all_files_by_type, \* human_data['all_files_by_type']
    total_folders,     \* the walk's local counter
    total_files,       \* the walk's local counter
    stack,             \* directories os.walk has still to list, next first
    overview,          \* human_data['overview']
    report,            \* the tables handed to the Excel writer
    main_result        \* what main returned

vars == << root_state, fs_dirs, fs_files, unreadable, pc, human_subfolders,
           subfolders, all_folders, all_files_by_type, total_folders,
           total_files, stack, overview, report, main_result >>

fsvars == << root_state, fs_dirs, fs_files, unreadable >>

(* ------------------------------------------------------------------ *)
(* Counters (collections.Counter): a function on the keys seen          *)
(* ------------------------------------------------------------------ *)

EmptyCounter == [k \in {} |-> 0]

CounterGet(c, k) == IF k \in DOMAIN c THEN c[k] ELSE 0

\* c[k] += n
CounterAdd(c, k, n) ==
    IF k \in DOMAIN c THEN [c EXCEPT ![k] = @ + n] ELSE c @@ (k :> n)

\* variant: the counts of d replace those of c instead of being added
CounterMergeOverwrite(c, d) ==
    [k \in DOMAIN c \cup DOMAIN d |-> IF k \in DOMAIN d THEN d[k] ELSE c[k]]

\* for k, n in d.items(): c[k] += n
CounterMerge(c, d) ==
    [k \in DOMAIN c \cup DOMAIN d |-> CounterGet(c, k) + CounterGet(d, k)]

RECURSIVE SumOver(_, _)
\* sum(c.values())
SumOver(c, keys) ==
    IF keys = {} THEN 0
    ELSE LET k == CHOOSE x \in keys : TRUE
         IN  c[k] + SumOver(c, keys \ {k})

CounterTotal(c) == SumOver(c, DOMAIN c)

RECURSIVE SeqSum(_)
SeqSum(s) == IF s = << >> THEN 0 ELSE Head(s) + SeqSum(Tail(s))

RECURSIVE SetMax(_)
\* max(...) of a non-empty set of integers
SetMax(S) ==
    LET x == CHOOSE y \in S : TRUE
    IN  IF S = {x} THEN x
        ELSE LET m == SetMax(S \ {x}) IN IF x > m THEN x ELSE m

(* ------------------------------------------------------------------ *)
(* File names                                                          *)
(* ------------------------------------------------------------------ *)

\* str.lower on the components that occur
Lower(s) == CASE s = "DAT" -> "dat" [] OTHER -> s

\* os.path.splitext(file)[1].lower(): the last component with its dot, unless
\* the name has no dot or only leading dots
Ext(file) ==
    IF Len(file) >= 2 /\ \E i \in 1..(Len(file) - 1) : file[i] # ""
    THEN "." \o Lower(file[Len(file)])
    ELSE ""

\* is_nifti_filename: the joined suffixes end with .nii or .nii.gz
is_nifti_filename(file) ==
    LET n == Len(file)
    IN  /\ n >= 2
        /\ file[1] # ""
        /\ \/ Lower(file[n]) = "nii"
           \/ n >= 3 /\ Lower(file[n - 1]) = "nii" /\ Lower(file[n]) = "gz"

(* ------------------------------------------------------------------ *)
(* The file system seen by os.listdir and os.walk                      *)
(* ------------------------------------------------------------------ *)

\* the names of the subdirectories of directory p
ChildNames(p) ==
    { d[Len(d)] : d \in { e \in fs_dirs : Len(e) = Len(p) + 1 /\ Parent(e) = p } }

\* the orders in which a listing may return a set of names
Orders(S) ==
    { s \in [1..Cardinality(S) -> S] :
        \A i, j \in 1..Cardinality(S) : i # j => s[i] # s[j] }

\* variant: only a permission error is taken for a failed listing
ListdirFailsUnlistable(rs) == rs = "unlistable"

\* os.listdir(human_root) raises (caught by the except clause of the scan)
ListdirFails(rs) == rs # "dir"

\* os.path.exists(human_root)
RootExists(rs) == rs # "missing"

\* the listing of directory p: its subdirectories and its files
ListDir(p) == [dirs |-> ChildNames(p), files |-> fs_files[p]]

\* [f for f in os.listdir(human_root) if os.path.isdir(join(human_root, f))]
\* isdir holds of the subdirectories, readable or not, and of no file
EnumerateSubfolders == ListDir(Root).dirs

(* ------------------------------------------------------------------ *)
(* scan_human_folder_complete: the body of the walk loop               *)
(* ------------------------------------------------------------------ *)

\* the first entries of dirs kept for display
SubfolderNamesShown == 10

\* the per-subfolder structure created before the walk
NewSubfolderData ==
    [ file_counts    |-> EmptyCounter,
      depth_counts   |-> EmptyCounter,
      total_files    |-> 0,
      total_folders  |-> 0,
      dicom_files    |-> 0,
      dat_files      |-> 0,
      folder_details |-> << >> ]

NoCounts == [file_types |-> EmptyCounter, dicom |-> 0, dat |-> 0, nifti |-> 0]

RECURSIVE CountFiles(_, _)
\* for file in files: classify the extension and count it
CountFiles(files, acc) ==
    IF files = {} THEN acc
    ELSE LET file == CHOOSE f \in files : TRUE
             ext  == Ext(file)
             next == [ file_types |-> CounterAdd(acc.file_types, ext, 1),
                       dicom |-> acc.dicom + (IF ext \in {".dcm", ".ima"} THEN 1 ELSE 0),
                       dat   |-> acc.dat + (IF ext = ".dat" THEN 1 ELSE 0),
                       nifti |-> acc.nifti + (IF is_nifti_filename(file) THEN 1 ELSE 0) ]
         IN  CountFiles(files \ {file}, next)

\* variant: the group is taken from the last path segment
CurrentSubfolderLast(rel_path) ==
    IF rel_path = Root THEN "" ELSE rel_path[Len(rel_path)]

\* current_subfolder: None (here "") for the root, else path_parts[0]
CurrentSubfolder(rel_path) ==
    IF rel_path = Root THEN "" ELSE rel_path[1]

\* depth: 0 for the root, else len(path_parts)
Depth(rel_path) == Len(rel_path)

\* folder_info for the directory rel_path with the listing (dirs, files)
FolderInfo(rel_path, dirs, files) ==
    LET c == CountFiles(files, NoCounts)
    IN  [ path            |-> rel_path,
          depth           |-> Depth(rel_path),
          num_subfolders  |-> Len(dirs),
          num_files       |-> Cardinality(files),
          file_types      |-> c.file_types,
          dicom_files     |-> c.dicom,
          dat_files       |-> c.dat,
          nifti_files     |-> c.nifti,
          subfolder_names |-> SubSeq(dirs, 1,
                                 IF Len(dirs) < SubfolderNamesShown
                                 THEN Len(dirs) ELSE SubfolderNamesShown) ]

\* variant: the extension counts of the folder are not added to the group
AccumulateGroupNoTypes(sf_data, info) ==
    [ sf_data EXCEPT
        !.folder_details = Append(@, info),
        !.total_folders  = @ + 1,
        !.total_files    = @ + info.num_files,
        !.dicom_files    = @ + info.dicom_files,
        !.dat_files      = @ + info.dat_files,
        !.depth_counts   = CounterAdd(@, info.depth, 1) ]

\* the updates of sf_data for one folder of the group
AccumulateGroup(sf_data, info) ==
    [ sf_data EXCEPT
        !.folder_details = Append(@, info),
        !.total_folders  = @ + 1,
        !.total_files    = @ + info.num_files,
        !.dicom_files    = @ + info.dicom_files,
        !.dat_files      = @ + info.dat_files,
        !.depth_counts   = CounterAdd(@, info.depth, 1),
        !.file_counts    = CounterMerge(@, info.file_types) ]

\* variant: an unreadable directory ends the walk
AfterUnreadableStop(stk) == << >>

\* os.walk after a failed listing: the directory is passed over (onerror is
\* None) and the walk goes on with what is left
AfterUnreadable(stk) == Tail(stk)

\* os.walk after yielding rel_path: its subdirectories come next, in the
\* order of dirs, before the directories already pending
AfterVisit(stk, rel_path, dirs) ==
    [i \in 1..Len(dirs) |-> Append(rel_path, dirs[i])] \o Tail(stk)

\* variant: max_depth counts the folders
OverviewStatsCountDepth(folders, n_folders, n_files, n_main) ==
    [ computed        |-> TRUE,
      total_folders   |-> n_folders,
      total_files     |-> n_files,
      main_subfolders |-> n_main,
      total_dicom     |-> SeqSum([i \in 1..Len(folders) |-> folders[i].dicom_files]),
      total_dat       |-> SeqSum([i \in 1..Len(folders) |-> folders[i].dat_files]),
      total_nifti     |-> SeqSum([i \in 1..Len(folders) |-> folders[i].nifti_files]),
      max_depth       |-> Len(folders) ]

\* human_data['overview']
OverviewStats(folders, n_folders, n_files, n_main) ==
    [ computed        |-> TRUE,
      total_folders   |-> n_folders,
      total_files     |-> n_files,
      main_subfolders |-> n_main,
      total_dicom     |-> SeqSum([i \in 1..Len(folders) |-> folders[i].dicom_files]),
      total_dat       |-> SeqSum([i \in 1..Len(folders) |-> folders[i].dat_files]),
      total_nifti     |-> SeqSum([i \in 1..Len(folders) |-> folders[i].nifti_files]),
      max_depth       |-> IF folders # << >>
                          THEN SetMax({ folders[i].depth : i \in 1..Len(folders) })
                          ELSE 0 ]

(* ------------------------------------------------------------------ *)
(* create_overview_sheet                                               *)
(* ------------------------------------------------------------------ *)

\* variant: Main_Subfolders is read from the last folder of the group
MainSubfoldersLast(sf_data) ==
    IF sf_data.folder_details # << >>
    THEN sf_data.folder_details[Len(sf_data.folder_details)].num_subfolders
    ELSE 0

\* Main_Subfolders of a group row: num_subfolders of its first folder
MainSubfolders(sf_data) ==
    IF sf_data.folder_details # << >>
    THEN sf_data.folder_details[1].num_subfolders
    ELSE 0

\* the row 'HUMAN FOLDER TOTAL'
GlobalRow(ov) ==
    [ Total_Folders   |-> ov.total_folders,
      Total_Files     |-> ov.total_files,
      DICOM_Files     |-> ov.total_dicom,
      DAT_Files       |-> ov.total_dat,
      NIFTI_Files     |-> ov.total_nifti,
      Main_Subfolders |-> ov.main_subfolders,
      Max_Depth       |-> ov.max_depth ]

\* the row of one main subfolder
GroupRow(sf_data) ==
    [ Total_Folders   |-> sf_data.total_folders,
      Total_Files     |-> sf_data.total_files,
      DICOM_Files     |-> sf_data.dicom_files,
      DAT_Files       |-> sf_data.dat_files,
      NIFTI_Files     |-> SeqSum([i \in 1..Len(sf_data.folder_details) |->
                                    sf_data.folder_details[i].nifti_files]),
      Main_Subfolders |-> MainSubfolders(sf_data),
      Max_Depth       |-> IF DOMAIN sf_data.depth_counts # {}
                          THEN SetMax(DOMAIN sf_data.depth_counts)
                          ELSE 0 ]

(* ------------------------------------------------------------------ *)
(* create_subfolder_sheet                                              *)
(* ------------------------------------------------------------------ *)

\* variant: raw input is looked for before processed output
ClassifyStatusRawFirst(mat, dat, ima) ==
    IF (dat + ima) > 0 THEN "Not Processed"
    ELSE IF mat > 0 THEN "Processed"
    ELSE "Unknown"

\* the status decided from a subject's .mat, .dat and .ima counts
ClassifyStatus(mat, dat, ima) ==
    IF mat > 0 THEN "Processed"
    ELSE IF (dat + ima) > 0 THEN "Not Processed"
    ELSE "Unknown"

\* parts[1] if len(parts) > 1 else None (here "")
SubjectOf(path) == IF Len(path) > 1 THEN path[2] ELSE ""

RECURSIVE SubjectExtCounts(_, _)
\* subject_ext_counts, a defaultdict(Counter): a subject gets its entry when
\* the first extension of one of its folders is added
SubjectExtCounts(details, acc) ==
    IF details = << >> THEN acc
    ELSE LET folder  == Head(details)
             subject == SubjectOf(folder.path)
             next    ==
                IF subject # "" /\ DOMAIN folder.file_types # {}
                THEN IF subject \in DOMAIN acc
                     THEN [acc EXCEPT ![subject] = CounterMerge(@, folder.file_types)]
                     ELSE acc @@ (subject :> CounterMerge(EmptyCounter, folder.file_types))
                ELSE acc
         IN  SubjectExtCounts(Tail(details), next)

\* subject_status
SubjectStatus(counts) ==
    [ subj \in DOMAIN counts |->
        ClassifyStatus(CounterGet(counts[subj], ".mat"),
                       CounterGet(counts[subj], ".dat"),
                       CounterGet(counts[subj], ".ima")) ]

\* p sorts before q as joined path strings (segments are one character)
RECURSIVE PathLess(_, _)
PathLess(p, q) ==
    IF q = << >> THEN FALSE
    ELSE IF p = << >> THEN TRUE
    ELSE IF Head(p) # Head(q) THEN SegRank[Head(p)] < SegRank[Head(q)]
    ELSE PathLess(Tail(p), Tail(q))

\* key a sorts before key b: by depth, then by path
KeyLess(a, b) ==
    \/ a.depth < b.depth
    \/ a.depth = b.depth /\ PathLess(a.path, b.path)

\* sort_values by (depth, path) on keys that are all different
SortedBy(unsorted, keys) ==
    CHOOSE sorted \in
        { [ i \in 1..Len(s) |->
              s[CHOOSE j \in 1..Len(s) :
                  Cardinality({ k \in 1..Len(s) : KeyLess(keys[k], keys[j]) }) = i - 1] ]
          : s \in { unsorted } } : TRUE

\* the sort keys of a sequence of folder records
FolderKeys(folders) ==
    [ i \in 1..Len(folders) |-> [depth |-> folders[i].depth, path |-> folders[i].path] ]

\* one row of a subfolder sheet
SheetRow(folder, subject_status) ==
    LET path_parts == folder.path
        subj       == SubjectOf(path_parts)
        n          == Len(path_parts)
    IN  [ Relative_Path     |-> folder.path,
          Level_1           |-> IF n > 0 THEN path_parts[1] ELSE "",
          Level_2           |-> IF n > 1 THEN path_parts[2] ELSE "",
          Level_3           |-> IF n > 2 THEN path_parts[3] ELSE "",
          Level_4           |-> IF n > 3 THEN path_parts[4] ELSE "",
          Deeper            |-> IF n > 4 THEN SubSeq(path_parts, 5, n) ELSE << >>,
          Depth             |-> folder.depth,
          Direct_Subfolders |-> folder.num_subfolders,
          Total_Files       |-> folder.num_files,
          DICOM             |-> folder.dicom_files,
          DAT               |-> folder.dat_files,
          NIFTI             |-> folder.nifti_files,
          Subject_Status    |-> IF subj # ""
                                THEN IF subj \in DOMAIN subject_status
                                     THEN subject_status[subj] ELSE ""
                                ELSE "" ]

\* the table of one main subfolder, with the subject counts it was built from
create_subfolder_sheet(sf_data) ==
    IF sf_data.folder_details = << >>
    THEN [ subject_ext_counts |-> [x \in {} |-> EmptyCounter],
           subject_status     |-> [x \in {} |-> ""],
           rows               |-> << >> ]
    ELSE CHOOSE sheet \in
           { [ subject_ext_counts |-> counts,
               subject_status     |-> status,
               rows               |->
                  SortedBy([ i \in 1..Len(sf_data.folder_details) |->
                               SheetRow(sf_data.folder_details[i], status) ],
                           FolderKeys(sf_data.folder_details)) ]
             : counts \in { SubjectExtCounts(sf_data.folder_details,
                                             [x \in {} |-> EmptyCounter]) },
               status \in { SubjectStatus(SubjectExtCounts(sf_data.folder_details,
                                             [x \in {} |-> EmptyCounter])) } } : TRUE

\* the sheet All_Folders
AllFoldersSheet(folders) ==
    SortedBy([ i \in 1..Len(folders) |->
                 [ path           |-> folders[i].path,
                   depth          |-> folders[i].depth,
                   num_subfolders |-> folders[i].num_subfolders,
                   num_files      |-> folders[i].num_files,
                   dicom_files    |-> folders[i].dicom_files,
                   dat_files      |-> folders[i].dat_files,
                   nifti_files    |-> folders[i].nifti_files ] ],
             FolderKeys(folders))

(* ------------------------------------------------------------------ *)
(* Initial states: main is called on some root                         *)
(* ------------------------------------------------------------------ *)

\* the directory trees: every directory but a group has its parent
Trees == { D \in SUBSET Universe : \A p \in D : Len(p) > 1 => Parent(p) \in D }

\* the contents of the directories of tree D, each taken from Sets
FileAssignments(D, Sets) ==
    { f \in [D \cup {Root} -> Sets] :
        Cardinality({ d \in DOMAIN f : f[d] # {} }) <= MaxFileDirs }

NoOverview == [computed |-> FALSE]

NoReport == [written |-> FALSE]

\* main is called on a root whose directories take their contents from Sets
InitWith(Sets) ==
    /\ root_state \in RootStates
    /\ fs_dirs \in (IF root_state = "dir" THEN Trees ELSE { {} })
    /\ fs_files \in FileAssignments(fs_dirs, Sets)
    /\ root_state # "dir" => fs_files[Root] = {}
    /\ unreadable \in { U \in SUBSET fs_dirs : Cardinality(U) <= MaxUnreadable }
    /\ pc = "main"
    /\ human_subfolders = {}
    /\ subfolders = [g \in {} |-> NewSubfolderData]
    /\ all_folders = << >>
    /\ all_files_by_type = EmptyCounter
    /\ total_folders = 0
    /\ total_files = 0
    /\ stack = << >>
    /\ overview = NoOverview
    /\ report = NoReport
    /\ main_result = "running"

Init == InitWith(FileSets)

InitFair == InitWith(FairFileSets)

(* ------------------------------------------------------------------ *)
(* main and scan_human_folder_complete                                 *)
(* ------------------------------------------------------------------ *)

\* main: the check that the root exists
MainCheckRoot ==
    /\ pc = "main"
    /\ IF RootExists(root_state)
       THEN /\ pc' = "scan"
            /\ main_result' = main_result
       ELSE /\ pc' = "returned"
            /\ main_result' = "None"
    /\ UNCHANGED << fsvars, human_subfolders, subfolders, all_folders,
                    all_files_by_type, total_folders, total_files, stack,
                    overview, report >>

\* the scan up to the walk: the main subfolders are enumerated and their
\* structures created; a failing listing makes the scan, then main, return None
ScanEnumerate ==
    /\ pc = "scan"
    /\ IF ListdirFails(root_state)
       THEN /\ pc' = "returned"
            /\ main_result' = "None"
            /\ UNCHANGED << human_subfolders, subfolders, stack >>
       ELSE /\ human_subfolders' = EnumerateSubfolders
            /\ subfolders' = [g \in EnumerateSubfolders |-> NewSubfolderData]
            /\ stack' = << Root >>
            /\ pc' = "walk"
            /\ main_result' = main_result
    /\ UNCHANGED << fsvars, all_folders, all_files_by_type, total_folders,
                    total_files, overview, report >>

\* another process creates a directory under the root after the enumeration
\* and before os.walk lists the root
MkdirLate ==
    /\ pc = "walk"
    /\ all_folders = << >>
    /\ stack = << Root >>
    /\ ChildNames(Root) \subseteq human_subfolders
    /\ \E n \in TopNames \ ChildNames(Root) :
          /\ fs_dirs' = fs_dirs \cup { << n >> }
          /\ fs_files' = fs_files @@ (<< n >> :> {})
    /\ UNCHANGED << root_state, unreadable, pc, human_subfolders, subfolders,
                    all_folders, all_files_by_type, total_folders, total_files,
                    stack, overview, report, main_result >>

\* one iteration of 'for root, dirs, files in os.walk(human_root)': the next
\* directory is listed, in some order of its subdirectories, and recorded
WalkVisit ==
    /\ pc = "walk"
    /\ stack # << >>
    /\ Head(stack) \notin unreadable
    /\ \E rel_path \in { Head(stack) } :
       \E dirs \in Orders(ListDir(rel_path).dirs) :
       \E info \in { FolderInfo(rel_path, dirs, ListDir(rel_path).files) } :
       \E current_subfolder \in { CurrentSubfolder(rel_path) } :
          /\ total_folders' = total_folders + 1
          /\ total_files' = total_files + info.num_files
          /\ all_files_by_type' = CounterMerge(all_files_by_type, info.file_types)
          /\ all_folders' = Append(all_folders, info)
          /\ subfolders' =
               IF current_subfolder # "" /\ current_subfolder \in DOMAIN subfolders
               THEN [subfolders EXCEPT ![current_subfolder] = AccumulateGroup(@, info)]
               ELSE subfolders
          /\ stack' = AfterVisit(stack, rel_path, dirs)
    /\ UNCHANGED << fsvars, pc, human_subfolders, overview, report, main_result >>

\* os.walk meets a directory it cannot list: nothing is yielded for it
WalkSkipUnreadable ==
    /\ pc = "walk"
    /\ stack # << >>
    /\ Head(stack) \in unreadable
    /\ stack' = AfterUnreadable(stack)
    /\ UNCHANGED << fsvars, pc, human_subfolders, subfolders, all_folders,
                    all_files_by_type, total_folders, total_files, overview,
                    report, main_result >>

\* the walk is over: the overview is computed and the scan returns human_data
ScanFinish ==
    /\ pc = "walk"
    /\ stack = << >>
    /\ overview' = OverviewStats(all_folders, total_folders, total_files,
                                 Cardinality(human_subfolders))
    /\ pc' = "save"
    /\ UNCHANGED << fsvars, human_subfolders, subfolders, all_folders,
                    all_files_by_type, total_folders, total_files, stack,
                    report, main_result >>

\* save_human_analysis_excel: the overview, one sheet per main subfolder that
\* has folders, and the sheet of all folders; main returns the file
SaveExcel ==
    /\ pc = "save"
    /\ \E sheets \in { [g \in DOMAIN subfolders |-> create_subfolder_sheet(subfolders[g])] } :
       \E shown \in { { g \in DOMAIN sheets : sheets[g].rows # << >> } } :
          report' =
             [ written     |-> TRUE,
               global_row  |-> GlobalRow(overview),
               group_rows  |-> [g \in DOMAIN subfolders |-> GroupRow(subfolders[g])],
               sheets      |-> sheets,
               all_folders |-> AllFoldersSheet(all_folders),
               sheet_count |-> 2 + Cardinality(shown)
                                 + (IF all_folders # << >> THEN 1 ELSE 0) ]
    /\ pc' = "returned"
    /\ main_result' = "excel_file"
    /\ UNCHANGED << fsvars, human_subfolders, subfolders, all_folders,
                    all_files_by_type, total_folders, total_files, stack,
                    overview >>

\* the steps of the program
Program ==
    \/ MainCheckRoot
    \/ ScanEnumerate
    \/ WalkVisit
    \/ WalkSkipUnreadable
    \/ ScanFinish
    \/ SaveExcel

Next == Program \/ MkdirLate

Spec == Init /\ [][Next]_vars

\* the program is never suspended for ever: it runs single-threaded to its end
FairSpec == InitFair /\ [][Next]_vars /\ WF_vars(Program)

TypeOK ==
    /\ pc \in {"main", "scan", "walk", "save", "returned"}
    /\ main_result \in {"running", "None", "excel_file"}
    /\ unreadable \subseteq fs_dirs

(* ------------------------------------------------------------------ *)
(* What the tree on disk determines, stated without the walk            *)
(* ------------------------------------------------------------------ *)

\* the directories the walk can list: readable, below readable directories
Reachable ==
    { d \in fs_dirs \cup {Root} :
        \A k \in 0..Len(d) : SubSeq(d, 1, k) \notin unreadable }

\* the reachable directories of group g
GroupDirs(g) == { d \in Reachable : d # Root /\ d[1] = g }

\* the files of a set of directories, each with its directory
FilesIn(D) == UNION { { << d, f >> : f \in fs_files[d] } : d \in D }

ExtCountsIn(D) ==
    [ e \in { Ext(x[2]) : x \in FilesIn(D) } |->
        Cardinality({ x \in FilesIn(D) : Ext(x[2]) = e }) ]

DicomIn(D) == Cardinality({ x \in FilesIn(D) : Ext(x[2]) \in {".dcm", ".ima"} })

DatIn(D) == Cardinality({ x \in FilesIn(D) : Ext(x[2]) = ".dat" })

DepthHistogram(D) ==
    [ k \in { Len(d) : d \in D } |-> Cardinality({ d \in D : Len(d) = k }) ]

RecordPaths == { all_folders[i].path : i \in 1..Len(all_folders) }

\* the records that belong to no group
Ungrouped ==
    SelectSeq(all_folders,
              LAMBDA r : r.path = Root \/ r.path[1] \notin DOMAIN subfolders)

\* the sum of the values of a function on the groups
GroupSum(f) == SumOver(f, DOMAIN f)

GroupFolders == GroupSum([g \in DOMAIN subfolders |-> subfolders[g].total_folders])
GroupFiles == GroupSum([g \in DOMAIN subfolders |-> subfolders[g].total_files])
GroupDicom == GroupSum([g \in DOMAIN subfolders |-> subfolders[g].dicom_files])
GroupDat == GroupSum([g \in DOMAIN subfolders |-> subfolders[g].dat_files])

\* the sums of a field over a sequence of records
NumFilesSum(s) == SeqSum([i \in 1..Len(s) |-> s[i].num_files])
DicomSum(s) == SeqSum([i \in 1..Len(s) |-> s[i].dicom_files])
DatSum(s) == SeqSum([i \in 1..Len(s) |-> s[i].dat_files])

(* ------------------------------------------------------------------ *)
(* Properties                                                          *)
(* ------------------------------------------------------------------ *)

\* C1: at every step of the walk and after it, each group's total_folders is
\* the number of its folder_details, and its total_files is both the sum of
\* num_files over them and the sum of the values of its file_counts.
C1_GroupTotalsConsistent ==
    \A g \in DOMAIN subfolders :
        LET sf == subfolders[g]
        IN  /\ sf.total_folders = Len(sf.folder_details)
            /\ sf.total_files = NumFilesSum(sf.folder_details)
            /\ sf.total_files = CounterTotal(sf.file_counts)

\* C1 happens: in the middle of a walk a group holds two folders and files of
\* two extensions
C1_Witness ==
    /\ pc = "walk"
    /\ stack # << >>
    /\ \E g \in DOMAIN subfolders :
          /\ Len(subfolders[g].folder_details) >= 2
          /\ subfolders[g].total_files >= 3
          /\ Cardinality(DOMAIN subfolders[g].file_counts) >= 2

\* the counts (.mat, .dat, .ima) of a subject in a written sheet
MatOf(sheet, subj) == CounterGet(sheet.subject_ext_counts[subj], ".mat")
DatOf(sheet, subj) == CounterGet(sheet.subject_ext_counts[subj], ".dat")
ImaOf(sheet, subj) == CounterGet(sheet.subject_ext_counts[subj], ".ima")

\* C2: every subject with aggregated counts gets exactly one of the three
\* labels: Processed whenever mat > 0, Not Processed exactly when mat = 0 and
\* (dat > 0 or ima > 0), Unknown exactly when all three are 0.
C2_StatusTotalDeterministic ==
    report.written =>
        \A g \in DOMAIN report.sheets :
            LET sheet == report.sheets[g]
            IN  /\ DOMAIN sheet.subject_status = DOMAIN sheet.subject_ext_counts
                /\ \A subj \in DOMAIN sheet.subject_ext_counts :
                      LET mat    == MatOf(sheet, subj)
                          dat    == DatOf(sheet, subj)
                          ima    == ImaOf(sheet, subj)
                          status == sheet.subject_status[subj]
                      IN  /\ status \in {"Processed", "Not Processed", "Unknown"}
                          /\ mat > 0 => status = "Processed"
                          /\ status = "Not Processed" <=>
                                (mat = 0 /\ (dat > 0 \/ ima > 0))
                          /\ status = "Unknown" <=> (mat = 0 /\ dat = 0 /\ ima = 0)

\* C2 happens: a written sheet has a subject whose folders hold .mat and .dat
\* files and that is Processed
C2_Witness ==
    /\ report.written
    /\ \E g \in DOMAIN report.sheets :
          \E subj \in DOMAIN report.sheets[g].subject_ext_counts :
              /\ MatOf(report.sheets[g], subj) > 0
              /\ DatOf(report.sheets[g], subj) > 0
              /\ report.sheets[g].subject_status[subj] = "Processed"

\* C3: the groups are the names enumerated before the walk; a record is in a
\* group's folder_details exactly when its first path segment is that group,
\* so the root record and a record of a directory that is no enumerated group
\* are in none; every record is counted once in the global total_folders and
\* total_files.
C3_GroupMembership ==
    /\ DOMAIN subfolders = human_subfolders
    /\ \A g \in DOMAIN subfolders :
          subfolders[g].folder_details =
              SelectSeq(all_folders, LAMBDA r : r.path # Root /\ r.path[1] = g)
    /\ Cardinality(RecordPaths) = Len(all_folders)
    /\ total_folders = Len(all_folders)
    /\ total_files = NumFilesSum(all_folders)
    /\ overview.computed =>
          /\ overview.total_folders = Len(all_folders)
          /\ overview.total_files = NumFilesSum(all_folders)

\* C3 happens: the scan is over, a directory created after the enumeration
\* was walked, the root holds files, and a group has two folders
C3_Witness ==
    /\ overview.computed
    /\ \E i \in 1..Len(all_folders) :
          /\ all_folders[i].path # Root
          /\ all_folders[i].path[1] \notin human_subfolders
    /\ all_folders[1].num_files > 0
    /\ \E g \in DOMAIN subfolders : Len(subfolders[g].folder_details) >= 2

\* C4 as claimed: after the scan each global total is the sum of the groups'
\* totals, max_depth the largest depth and main_subfolders the number of groups.
C4_OverviewIsSumOfGroups ==
    overview.computed =>
        /\ overview.total_folders = GroupFolders
        /\ overview.total_files = GroupFiles
        /\ overview.total_dicom = GroupDicom
        /\ overview.total_dat = GroupDat
        /\ overview.max_depth = SetMax({ all_folders[i].depth : i \in 1..Len(all_folders) })
        /\ overview.main_subfolders = Cardinality(DOMAIN subfolders)

\* C4 amended: after the scan each global total is the sum of the groups'
\* totals plus the contribution of the records that belong to no group (the
\* root record and records of directories that are no enumerated group);
\* max_depth is the largest depth of a record and main_subfolders the number
\* of groups.
C4_OverviewIsSumOfGroupsAndUngrouped ==
    overview.computed =>
        /\ overview.total_folders = GroupFolders + Len(Ungrouped)
        /\ overview.total_files = GroupFiles + NumFilesSum(Ungrouped)
        /\ overview.total_dicom = GroupDicom + DicomSum(Ungrouped)
        /\ overview.total_dat = GroupDat + DatSum(Ungrouped)
        /\ overview.max_depth = SetMax({ all_folders[i].depth : i \in 1..Len(all_folders) })
        /\ overview.main_subfolders = Cardinality(DOMAIN subfolders)

\* C4 happens: the scan is over, the root holds DICOM files that no group
\* counts, a group holds files too, and the tree is three levels deep
C4_Witness ==
    /\ overview.computed
    /\ all_folders[1].dicom_files > 0
    /\ GroupFiles > 0
    /\ overview.total_files > GroupFiles
    /\ overview.max_depth = 3

\* C5: whatever the order in which sibling directories were walked, the final
\* totals are those the tree determines: the global counts and extension
\* counts, and each group's folders, files, DICOM, DAT, extension counts and
\* depth histogram.
C5_TotalsIndependentOfOrder ==
    overview.computed =>
        /\ overview.total_folders = Cardinality(Reachable)
        /\ overview.total_files = Cardinality(FilesIn(Reachable))
        /\ overview.total_dicom = DicomIn(Reachable)
        /\ overview.total_dat = DatIn(Reachable)
        /\ overview.max_depth = SetMax({ Len(d) : d \in Reachable })
        /\ all_files_by_type = ExtCountsIn(Reachable)
        /\ \A g \in human_subfolders :
              /\ subfolders[g].total_folders = Cardinality(GroupDirs(g))
              /\ subfolders[g].total_files = Cardinality(FilesIn(GroupDirs(g)))
              /\ subfolders[g].dicom_files = DicomIn(GroupDirs(g))
              /\ subfolders[g].dat_files = DatIn(GroupDirs(g))
              /\ subfolders[g].file_counts = ExtCountsIn(GroupDirs(g))
              /\ subfolders[g].depth_counts = DepthHistogram(GroupDirs(g))

\* C5 happens: the scan is over after a walk that took group B before group A
\* and subject T before subject S, with .dat files in two folders of group A
C5_Witness ==
    /\ overview.computed
    /\ all_folders[1].subfolder_names = << "B", "A" >>
    /\ \E i \in 1..Len(all_folders) :
          /\ all_folders[i].path = << "A" >>
          /\ all_folders[i].subfolder_names = << "T", "S" >>
    /\ "A" \in DOMAIN subfolders
    /\ CounterGet(subfolders["A"].file_counts, ".dat") = 4

\* C6: when the root is missing, is no directory or cannot be listed, nothing
\* is walked, the scan returns no aggregate, the report writer is not invoked
\* and main returns no result.
C6_RootFailureNoReport ==
    root_state # "dir" =>
        /\ pc \in {"main", "scan", "returned"}
        /\ stack = << >>
        /\ all_folders = << >>
        /\ total_folders = 0
        /\ ~overview.computed
        /\ ~report.written
        /\ main_result # "excel_file"
        /\ pc = "returned" => main_result = "None"

\* C6 happens: main has returned for a root that exists but is a file
C6_Witness ==
    /\ root_state = "file"
    /\ pc = "returned"
    /\ main_result = "None"

\* C7: the run ends, and once the walk is over there is exactly one record for
\* every directory reachable from the root through readable directories and
\* none for an unreadable directory or anything below it.
C7_WalkTerminatesAndCovers ==
    /\ <>(pc = "returned")
    /\ [](overview.computed =>
            /\ RecordPaths = Reachable
            /\ Len(all_folders) = Cardinality(Reachable))

\* C7 happens: the walk is over; subject S of group A, listed first, could not
\* be listed and has a subfolder, and its sibling T and group B are recorded
C7_Witness ==
    /\ overview.computed
    /\ << "A", "S" >> \in unreadable
    /\ << "A", "S", "S" >> \in fs_dirs
    /\ \E i \in 1..Len(all_folders) :
          /\ all_folders[i].path = << "A" >>
          /\ all_folders[i].subfolder_names = << "S", "T" >>
    /\ << "A", "T" >> \in RecordPaths
    /\ << "B" >> \in RecordPaths
    /\ << "A", "S" >> \notin RecordPaths

\* the overview row of a group of which nothing was found
ZeroRow ==
    [ Total_Folders |-> 0, Total_Files |-> 0, DICOM_Files |-> 0, DAT_Files |-> 0,
      NIFTI_Files |-> 0, Main_Subfolders |-> 0, Max_Depth |-> 0 ]

\* C8: an unreadable main subfolder is not presented as a group whose totals
\* are simply zero.
C8_UnreadableGroupNotShownAsZero ==
    report.written =>
        \A g \in DOMAIN report.group_rows :
            << g >> \in unreadable => report.group_rows[g] # ZeroRow

\* the count of extension ext over the folders of a group that lie in or
\* below the subject subj
SubjectCount(details, subj, ext) ==
    SeqSum([ i \in 1..Len(details) |->
               IF SubjectOf(details[i].path) = subj
               THEN CounterGet(details[i].file_types, ext)
               ELSE 0 ])

\* C9: in a group's table every row of depth 2 or more carries the status
\* that classifies the counts summed over the folders of that group in or
\* below the row's subject, and the group's own row carries the empty string.
C9_RowsCarrySubjectStatus ==
    report.written =>
        \A g \in DOMAIN report.sheets :
            LET rows    == report.sheets[g].rows
                details == subfolders[g].folder_details
            IN  \A i \in 1..Len(rows) :
                    rows[i].Subject_Status =
                        IF rows[i].Depth >= 2
                        THEN ClassifyStatus(
                                 SubjectCount(details, rows[i].Relative_Path[2], ".mat"),
                                 SubjectCount(details, rows[i].Relative_Path[2], ".dat"),
                                 SubjectCount(details, rows[i].Relative_Path[2], ".ima"))
                        ELSE ""

\* C10: a group's folder_details start with the group directory itself, every
\* later record comes after the record of its parent directory, and the
\* overview's Main_Subfolders of the group is the number of direct
\* subdirectories of the group directory.
C10_GroupRecordsPreOrder ==
    \A g \in DOMAIN subfolders :
        LET fd == subfolders[g].folder_details
        IN  fd # << >> =>
              /\ fd[1].path = << g >>
              /\ fd[1].depth = 1
              /\ \A i \in 2..Len(fd) :
                    \E j \in 1..(i - 1) : fd[j].path = Parent(fd[i].path)
              /\ report.written =>
                    report.group_rows[g].Main_Subfolders = Cardinality(ChildNames(<< g >>))

\* C10 happens: the report is written for a group of four folders whose
\* directory has two subdirectories, one of them with a subfolder of its own
C10_Witness ==
    /\ report.written
    /\ \E g \in DOMAIN subfolders :
          /\ Len(subfolders[g].folder_details) = 4
          /\ report.group_rows[g].Main_Subfolders = 2
          /\ subfolders[g].folder_details[4].num_subfolders # 2

====
